---- MODULE Spec2Model ----
(***************************************************************************)
(* big_sleep/big_sleep.py as a state machine: the Imagine object (its      *)
(* construction, prompt encoding, reset and the epoch/iteration loop of    *)
(* forward with its checkpoints), the SIGINT handler that sets the         *)
(* module-level flag `terminate`, and the pure helper rand_cutout.         *)
(*                                                                         *)
(* Conventions.  An optional Python value is a sequence of length 0 (None) *)
(* or 1.  A Python str is a sequence of one-character strings.  An image   *)
(* is named by the checkpoint that produced it.  Cosine similarities are   *)
(* drawn from CosVals; a loss is kept as an integer (fixed point, rounded  *)
(* towards minus infinity where torch would keep a fraction).              *)
(***************************************************************************)
EXTENDS Integers, Sequences, FiniteSets, TLC

\* ---------------------------------------------------------------- bounds
\* Largest epochs / iterations / save_every / gradient_accumulate_every drawn.
MaxEpochs == 2
MaxIterations == 3
MaxSaveEvery == 2
MaxAccumulate == 2
\* Largest total_image_updates (epochs * iterations / save_every) of a run.
MaxImageUpdates == 3
\* Number of augmentation views per forward pass (num_cutouts).
NumCutouts == 2
\* Number of times forward is invoked on one instance.
MaxRuns == 2

\* Longest prompt (text, text_min) drawn, in characters.
MaxLen == 2
\* Number of image writes that fail during one forward call.
MaxFailures == 1
\* Largest iterations of a library session.
MaxLifeIterations == 2
\* Number of latent parameter sets one instance creates (construction and resets).
MaxGen == 2
\* Random draws: the normal draw of the crop size runs over multiples of
\* NormalStep thousandths from -NormalSpan to 3 * NormalSpan steps; the normal
\* draw of an offset over -GaussSpan..GaussSpan halves of sigma; a uniform
\* draw over the fractions 0..UniformGrid of UniformGrid.
NormalStep == 50
NormalSpan == 12
GaussSpan == 6
UniformGrid == 4

\* ------------------------------------------------------ program constants
loss_coef == 100
num_classes == 1000
TextMinMax == 255
PathMax == 255

\* ----------------------------------------------------------- input domains
\* Cosine similarities a view can have with a phrase.
CosVals == {-1, 1}
\* Characters of a prompt.
Chars == {"a", "|"}

\* Positions inside Imagine.forward, and those inside Imagine.train_step.
StepPCs == {"micro", "opt", "ema", "zero", "ckpt_eval", "save_canon", "save_progress",
            "save_best"}
PollPCs == {"epoch_poll", "iter_poll"}
RunPCs == StepPCs \cup PollPCs

None == <<>>
Some(x) == <<x>>
exists(val) == val # None

RECURSIVE SumSeq(_)
SumSeq(s) == IF s = <<>> THEN 0 ELSE Head(s) + SumSeq(Tail(s))

VARIABLES
    cfg,                \* the keyword arguments Imagine was constructed with
    pc,                 \* where the program is
    terminate,          \* the module-level interrupt flag
    loaded,             \* how often each pretrained model has been loaded
    latents,            \* the trainable state behind model.model.latents
    optimizer,          \* the Adam instance of the Imagine object
    prompt,             \* self.text, self.text_min
    encoded_texts,      \* self.encoded_texts: "max" and "min" phrase lists
    current_best_score, \* self.current_best_score
    epoch, i, mb,       \* loop positions of forward and train_step
    ckpt,               \* locals of the checkpoint branch of train_step
    files,              \* the image files on disk: file name -> image
    stat,               \* history of the current forward call
    hist,               \* history of the instance across calls
    cut                 \* the last crop rand_cutout took

vars == <<cfg, pc, terminate, loaded, latents, optimizer, prompt, encoded_texts,
          current_best_score, epoch, i, mb, ckpt, files, stat, hist, cut>>


\* ------------------------------------------------------------ str helpers
Contains(s, c) == \E k \in 1..Len(s) : s[k] = c

FirstIndex(s, c) == CHOOSE k \in 1..Len(s) : s[k] = c /\ \A j \in 1..(k - 1) : s[j] # c

\* s.split(sep) for a one-character separator.
RECURSIVE split(_, _)
split(s, sep) ==
    IF ~Contains(s, sep) THEN <<s>>
    ELSE LET k == FirstIndex(s, sep)
         IN  <<SubSeq(s, 1, k - 1)>> \o split(SubSeq(s, k + 1, Len(s)), sep)

\* "".join(parts)
RECURSIVE join(_)
join(parts) == IF parts = <<>> THEN <<>> ELSE Head(parts) \o join(Tail(parts))

\* s.replace(c, by) for a one-character c and a string by.
RECURSIVE replace(_, _, _)
replace(s, c, by) ==
    IF s = <<>> THEN <<>>
    ELSE IF Len(s) = 1 THEN (IF s[1] = c THEN by ELSE s)
    ELSE LET m == Len(s) \div 2
         IN  replace(SubSeq(s, 1, m), c, by) \o replace(SubSeq(s, m + 1, Len(s)), c, by)

\* s.strip(chars)
lstrip(s, cs) ==
    LET kept == {k \in 1..Len(s) : s[k] \notin cs}
    IN  IF kept = {} THEN <<>>
        ELSE SubSeq(s, CHOOSE k \in kept : \A j \in kept : k <= j, Len(s))

rstrip(s, cs) ==
    LET kept == {k \in 1..Len(s) : s[k] \notin cs}
    IN  IF kept = {} THEN <<>>
        ELSE SubSeq(s, 1, CHOOSE k \in kept : \A j \in kept : j <= k)

strip(s, cs) == rstrip(lstrip(s, cs), cs)

\* s[:n]
prefix(s, n) == SubSeq(s, 1, IF Len(s) < n THEN Len(s) ELSE n)

\* All strings over cs of length at most n.
Strings(cs, n) == UNION {[1..k -> cs] : k \in 0..n}

wout == <<"_", "w", "o", "u", "t", "_">>

\* ------------------------------------------------------- create_text_path
create_text_path(text, img, encoding) ==
    LET n1 == IF exists(text) THEN text[1] ELSE <<>>
        dot == split(img[1], ".")
        img_name == split(join(SubSeq(dot, 1, Len(dot) - 1)), "/")
        n2 == IF exists(img) THEN n1 \o <<"_">> \o img_name[Len(img_name)] ELSE n1
        n3 == IF exists(encoding)
              THEN <<"y","o","u","r","_","e","n","c","o","d","i","n","g">>
              ELSE n2
        r1 == replace(n3, "-", <<"_">>)
        r2 == replace(r1, ",", <<>>)
        r3 == replace(r2, " ", <<"_">>)
        r4 == replace(r3, "|", <<"-", "-">>)
    IN  prefix(strip(r4, {"-", "_"}), PathMax)

\* ------------------------------------------------------- prompt encoding
\* Imagine.create_clip_encoding: the embedding of one phrase.  The embedding
\* models are opaque; an embedding is named by what it was computed from.
create_clip_encoding(text, img, encoding) ==
    IF exists(encoding) THEN [kind |-> "encoding", text |-> None]
    ELSE IF exists(text) /\ exists(img) THEN [kind |-> "text+img", text |-> text]
    ELSE IF exists(text) THEN [kind |-> "text", text |-> text]
    ELSE IF exists(img) THEN [kind |-> "img", text |-> None]
    ELSE [kind |-> "None", text |-> None]

\* Imagine.encode_multiple_phrases: the list stored under one text_type.
encode_multiple_phrases(text, img, encoding) ==
    IF exists(text) /\ Contains(text[1], "|")
    THEN LET parts == split(text[1], "|")
         IN  [k \in 1..Len(parts) |-> create_clip_encoding(Some(parts[k]), img, encoding)]
    ELSE <<create_clip_encoding(text, img, encoding)>>

\* Imagine.encode_max_and_min: the new self.encoded_texts, given the old one.
encode_max_and_min(old, text, img, encoding, text_min) ==
    [max |-> encode_multiple_phrases(text, img, encoding),
     min |-> IF text_min # <<>>
             THEN encode_multiple_phrases(Some(text_min), img, encoding)
             ELSE old.min]

\* The text set_clip_encoding passes on to create_text_path and to
\* encode_max_and_min (the local `text` after line 479).
text_with_min(text, text_min) ==
    IF Len(text_min) > 0
    THEN IF exists(text)
         THEN Some(text[1] \o wout \o prefix(text_min, TextMinMax))
         ELSE Some(Tail(wout) \o prefix(text_min, TextMinMax))
    ELSE text

\* self.text as create_clip_encoding leaves it: the last phrase it was given.
last_phrase(text) ==
    IF exists(text) /\ Contains(text[1], "|")
    THEN LET parts == split(text[1], "|") IN Some(parts[Len(parts)])
    ELSE text

\* Imagine.set_clip_encoding.
\* datetime.now().strftime("%y%m%d-%H%M%S-"): twice six digits, each
\* followed by a hyphen; the digits of the clock are written "0".
strftime ==
    <<"0", "0", "0", "0", "0", "0", "-", "0", "0", "0", "0", "0", "0", "-">>

\* Imagine.set_clip_encoding, on an instance whose fields are cfg'.
set_clip_encoding(text, img, encoding, text_min) ==
    LET t == text_with_min(text, text_min)
        enc == encode_max_and_min(encoded_texts, t, img, encoding, text_min)
        text_path == create_text_path(t, img, encoding)
    IN  /\ current_best_score' = 0
        /\ encoded_texts' = enc
        /\ prompt' = [text |-> IF text_min # <<>> THEN last_phrase(Some(text_min))
                                ELSE last_phrase(t),
                      text_min |-> text_min,
                      text_path |-> IF cfg'.save_date_time
                                    THEN strftime \o text_path
                                    ELSE text_path]
        /\ hist' = [hist EXCEPT !.newPrompt = (pc # "new"),
                                !.call = [text |-> text, img |-> img,
                                          encoding |-> encoding, text_min |-> text_min]]

\* ------------------------------------------------------------ the models
\* Model.init_latents: a new Latents module wrapped in a new EMA.
init_latents(old) ==
    [gen |-> old.gen + 1, steps |-> 0, ema |-> 0, grads |-> 0, mode |-> "train"]

\* Adam(...) over the parameters of the latents `l`.
Adam(l) == [params |-> l.gen, steps |-> 0]

\* The assert of Model.__init__.
valid_image_size(image_size) == image_size \in {128, 256, 512}

\* The assert of Latents.__init__.
valid_max_classes(max_classes) ==
    ~exists(max_classes) \/ (max_classes[1] > 0 /\ max_classes[1] <= num_classes)

NoLatents == [gen |-> 0, steps |-> 0, ema |-> 0, grads |-> 0, mode |-> "train"]
NoOptimizer == [params |-> 0, steps |-> 0]
NoPrompt == [text |-> None, text_min |-> <<>>, text_path |-> <<>>]
NoTexts == [max |-> <<>>, min |-> <<>>]
NoCkpt == [top_score |-> 0, best |-> 0, views |-> <<>>, image |-> 0]
NoCut == [width |-> 0, size |-> 0, offset_x |-> 0, offset_y |-> 0]
NoStat ==
    [warmups |-> 0, started |-> 0, finished |-> 0, micro |-> 0, opt |-> 0, ema |-> 0,
     zero |-> 0, due |-> 0, ckpts |-> 0, tried |-> 0, failed |-> 0, best_tried |-> 0,
     ckptAfterFlag |-> 0, leftAtFlag |-> FALSE,
     newPrompt |-> FALSE, stepsAtStart |-> 0]
NoCall == [text |-> None, img |-> None, encoding |-> None, text_min |-> <<>>]
NoHist == [runs |-> 0, seq |-> 0, newPrompt |-> FALSE, bestCkpt |-> 0, call |-> NoCall]

\* Imagine.__init__ with the keyword arguments c and the prompt arguments.
\* BigSleep.__init__ loads the perceptor, then Model.__init__ checks the image
\* size and loads the generator, then Latents.__init__ checks max_classes.
Construct(c, text, img, encoding, text_min) ==
    /\ pc = "new"
    /\ cfg' = c
    /\ IF ~valid_image_size(c.image_size)
       THEN /\ pc' = "failed"
            /\ loaded' = [loaded EXCEPT !.perceptor = @ + 1]
            /\ UNCHANGED <<latents, optimizer, prompt, encoded_texts, current_best_score,
                           hist>>
       ELSE IF ~valid_max_classes(c.max_classes)
       THEN /\ pc' = "failed"
            /\ loaded' = [perceptor |-> loaded.perceptor + 1, biggan |-> loaded.biggan + 1]
            /\ UNCHANGED <<latents, optimizer, prompt, encoded_texts, current_best_score,
                           hist>>
       ELSE /\ pc' = "idle"
            /\ loaded' = [perceptor |-> loaded.perceptor + 1, biggan |-> loaded.biggan + 1]
            /\ latents' = init_latents(latents)
            /\ optimizer' = Adam(latents')
            /\ set_clip_encoding(text, img, encoding, text_min)
    /\ UNCHANGED <<terminate, epoch, i, mb, ckpt, files, stat, cut>>

\* The instance is constructed and no forward call is running.
AtRest == pc \in {"idle", "done"}

\* Imagine.set_text
SetText(text) ==
    /\ AtRest
    /\ UNCHANGED <<cfg, pc, terminate, loaded, latents, optimizer, epoch, i, mb, ckpt,
                   files, stat, cut>>
    /\ set_clip_encoding(text, None, None, <<>>)

\* Imagine.set_clip_encoding called on a constructed instance.
SetClipEncoding(text, img, encoding, text_min) ==
    /\ AtRest
    /\ UNCHANGED <<cfg, pc, terminate, loaded, latents, optimizer, epoch, i, mb, ckpt,
                   files, stat, cut>>
    /\ set_clip_encoding(text, img, encoding, text_min)

\* Imagine.reset (BigSleep.reset, then a new optimizer).
Reset ==
    /\ AtRest
    /\ latents.gen < MaxGen
    /\ latents' = init_latents(latents)
    /\ optimizer' = Adam(latents')
    /\ UNCHANGED <<cfg, pc, terminate, loaded, prompt, encoded_texts, current_best_score,
                   epoch, i, mb, ckpt, files, stat, hist, cut>>

\* signal_handling, run by the interpreter between any two steps.
Signal ==
    /\ ~terminate
    /\ terminate' = TRUE
    /\ stat' = [stat EXCEPT !.leftAtFlag =
                    pc \in RunPCs /\ stat.started < cfg.epochs * cfg.iterations]
    /\ UNCHANGED <<cfg, pc, loaded, latents, optimizer, prompt, encoded_texts,
                   current_best_score, epoch, i, mb, ckpt, files, hist, cut>>

\* ------------------------------------------------------- BigSleep.forward
\* BigSleep.sim_txt_to_img: cos holds the cosine similarity of one phrase
\* with each of the views; the mean is taken over the views.
sim_txt_to_img(cos, text_type) ==
    LET sign == IF text_type = "min" THEN 1 ELSE -1
    IN  (sign * loss_coef * SumSeq(cos)) \div Len(cos)

\* sim_loss of BigSleep.forward (lines 330-335): one term per phrase, summed.
\* cos[p] is the similarity vector of phrase p, "max" phrases first.
sim_loss(cos, n_max) ==
    SumSeq([p \in 1..Len(cos) |->
              sim_txt_to_img(cos[p], IF p <= n_max THEN "max" ELSE "min")])

\* torch.topk(x, k=1, largest=False) of a vector x: the lowest value and the
\* (0-based) index of its first occurrence.
topk_smallest(x) ==
    LET k == CHOOSE a \in 1..Len(x) :
                 /\ \A b \in 1..Len(x) : x[a] <= x[b]
                 /\ \A b \in 1..(a - 1) : x[b] > x[a]
    IN  [top_score |-> x[k], best |-> k - 1]

\* The similarity loss of each single view, summed over the phrases: the
\* quantity BigSleep.forward would hold before its means.
per_view(cos, n_max) ==
    [v \in 1..NumCutouts |->
        SumSeq([p \in 1..Len(cos) |->
                  (IF p <= n_max THEN -1 ELSE 1) * loss_coef * cos[p][v]])]

\* All similarity draws for n phrases.
CosDraws(n) == [1..n -> [1..NumCutouts -> CosVals]]

\* ------------------------------------------------------- Imagine.forward
\* A loop that never looks at the flag.
stop_never == FALSE

\* The test `if not terminate` of the two generator expressions.
stop_requested == terminate

\* A checkpoint that an interrupt arriving during the step cancels.
checkpoint_due_unless_stopped(it) == ~terminate /\ (it + 1) % cfg.save_every = 0

\* (i + 1) % self.save_every == 0
checkpoint_due(it) == (it + 1) % cfg.save_every = 0

\* A comparison that lets a tie count as an improvement.
improves_or_ties(top_score, best_score) == top_score <= best_score

\* top_score.item() < self.current_best_score
improves(top_score, best_score) == top_score < best_score

\* A save_image without its try/except.
save_image_uncaught(outcome) == [written |-> outcome = "ok", raised |-> outcome # "ok"]

\* save_image: what the write did and whether an exception leaves the function.
save_image(outcome) == [written |-> outcome = "ok", raised |-> FALSE]

\* What a write can do; at most MaxFailures writes of one forward call fail.
Outcomes == IF stat.failed < MaxFailures THEN {"ok", "error"} ELSE {"ok"}

\* File names: canonical, numbered progress, best.
filename == <<prompt.text_path, "canon", 0>>
progress_path(num) == <<prompt.text_path, "progress", num>>
best_path == <<prompt.text_path, "best", 0>>

write(fs, name, image) == [n \in DOMAIN fs \cup {name} |-> IF n = name THEN image ELSE fs[n]]

\* The entry of forward up to its loops: the warm-up pass.
forward_start ==
    /\ hist' = [hist EXCEPT !.runs = @ + 1, !.newPrompt = FALSE]
    /\ IF encoded_texts.max[1].kind = "None"
       THEN /\ pc' = "raised"
            /\ UNCHANGED <<epoch, stat>>
       ELSE /\ pc' = "epoch_poll"
            /\ epoch' = 0
            /\ stat' = [NoStat EXCEPT !.warmups = 1, !.leftAtFlag = terminate,
                                      !.newPrompt = hist.newPrompt,
                                      !.stepsAtStart = latents.steps]
    /\ UNCHANGED <<cfg, terminate, loaded, latents, optimizer, prompt, encoded_texts,
                   current_best_score, i, mb, ckpt, files, cut>>

\* The first call of forward on the instance.
Forward ==
    /\ pc = "idle"
    /\ forward_start

\* A later call of forward on the same instance.
ForwardAgain ==
    /\ pc = "done"
    /\ hist.runs < MaxRuns
    /\ forward_start

\* for epoch in (ep for ep in epoch_pbar if not terminate)
EpochPoll ==
    /\ pc = "epoch_poll"
    /\ IF epoch = cfg.epochs
       THEN /\ pc' = "done"
            /\ UNCHANGED <<epoch, i>>
       ELSE IF stop_requested
       THEN /\ epoch' = epoch + 1
            /\ UNCHANGED <<pc, i>>
       ELSE /\ pc' = "iter_poll"
            /\ i' = 0
            /\ UNCHANGED epoch
    /\ UNCHANGED <<cfg, terminate, loaded, latents, optimizer, prompt, encoded_texts,
                   current_best_score, mb, ckpt, files, stat, hist, cut>>

\* for i in (it for it in pbar if not terminate): the poll, and the entry of
\* train_step when the poll lets the iteration through.
IterPoll ==
    /\ pc = "iter_poll"
    /\ IF i = cfg.iterations
       THEN /\ pc' = "epoch_poll"
            /\ epoch' = epoch + 1
            /\ UNCHANGED <<i, mb, stat>>
       ELSE IF stop_requested
       THEN /\ i' = i + 1
            /\ UNCHANGED <<pc, epoch, mb, stat>>
       ELSE /\ pc' = "micro"
            /\ mb' = 0
            /\ stat' = [stat EXCEPT !.started = @ + 1,
                                    !.micro = 0,
                                    !.due = @ + (IF (i + 1) % cfg.save_every = 0 THEN 1 ELSE 0)]
            /\ UNCHANGED <<epoch, i>>
    /\ UNCHANGED <<cfg, terminate, loaded, latents, optimizer, prompt, encoded_texts,
                   current_best_score, ckpt, files, hist, cut>>

\* ----------------------------------------------------- Imagine.train_step
\* An accumulation loop of a single pass.
accumulated_once(n) == n = 1

\* for _ in range(self.gradient_accumulate_every): the range is run out
\* after n passes.
accumulated(n) == n = cfg.gradient_accumulate_every

\* One pass of the accumulation loop: forward, loss, backward.
Micro ==
    /\ pc = "micro"
    /\ latents' = [latents EXCEPT !.grads = @ + 1]
    /\ mb' = mb + 1
    /\ stat' = [stat EXCEPT !.micro = @ + 1]
    /\ pc' = IF accumulated(mb + 1) THEN "opt" ELSE "micro"
    /\ UNCHANGED <<cfg, terminate, loaded, optimizer, prompt, encoded_texts,
                   current_best_score, epoch, i, ckpt, files, hist, cut>>

\* self.optimizer.step()
Opt ==
    /\ pc = "opt"
    /\ optimizer' = [optimizer EXCEPT !.steps = @ + 1]
    /\ latents' = IF optimizer.params = latents.gen
                  THEN [latents EXCEPT !.steps = @ + 1]
                  ELSE latents
    /\ stat' = [stat EXCEPT !.opt = @ + 1]
    /\ pc' = "ema"
    /\ UNCHANGED <<cfg, terminate, loaded, prompt, encoded_texts, current_best_score,
                   epoch, i, mb, ckpt, files, hist, cut>>

\* self.model.model.latents.update()
Ema ==
    /\ pc = "ema"
    /\ latents' = [latents EXCEPT !.ema = @ + 1]
    /\ stat' = [stat EXCEPT !.ema = @ + 1]
    /\ pc' = "zero"
    /\ UNCHANGED <<cfg, terminate, loaded, optimizer, prompt, encoded_texts,
                   current_best_score, epoch, i, mb, ckpt, files, hist, cut>>

\* self.optimizer.zero_grad(), then the test of line 514; without a
\* checkpoint train_step returns and the iteration ends.
Zero ==
    /\ pc = "zero"
    /\ latents' = [latents EXCEPT !.grads = 0]
    /\ IF checkpoint_due(i)
       THEN /\ pc' = "ckpt_eval"
            /\ stat' = [stat EXCEPT !.zero = @ + 1]
            /\ UNCHANGED i
       ELSE /\ pc' = "iter_poll"
            /\ i' = i + 1
            /\ stat' = [stat EXCEPT !.zero = @ + 1, !.finished = @ + 1]
    /\ UNCHANGED <<cfg, terminate, loaded, optimizer, prompt, encoded_texts,
                   current_best_score, epoch, mb, ckpt, files, hist, cut>>

\* Lines 515-520: the forward pass under the EMA shadow, topk over losses[2]
\* (a scalar: the means of sim_txt_to_img have folded the views), and the
\* generated image indexed by the result.
CkptEval(cos) ==
    /\ pc = "ckpt_eval"
    /\ LET n_max == Len(encoded_texts.max)
           picked == topk_smallest(<<sim_loss(cos, n_max)>>)
       IN  ckpt' = [top_score |-> picked.top_score,
                    best |-> picked.best,
                    views |-> per_view(cos, n_max),
                    image |-> hist.seq + 1]
    /\ hist' = [hist EXCEPT !.seq = @ + 1]
    /\ stat' = [stat EXCEPT !.ckpts = @ + 1,
                            !.ckptAfterFlag = @ + (IF terminate THEN 1 ELSE 0)]
    /\ pc' = "save_canon"
    /\ UNCHANGED <<cfg, terminate, loaded, latents, optimizer, prompt, encoded_texts,
                   current_best_score, epoch, i, mb, files, cut>>

\* Lines 538-546: the canonical image, inside train_step's own try.
SaveCanon(outcome) ==
    /\ pc = "save_canon"
    /\ LET r == save_image(outcome)
       IN  /\ files' = IF r.written THEN write(files, filename, ckpt.image) ELSE files
           /\ stat' = [stat EXCEPT !.tried = @ + 1,
                                   !.failed = @ + (IF r.written THEN 0 ELSE 1)]
    /\ pc' = "save_progress"
    /\ ckpt' = [ckpt EXCEPT !.views = <<>>]
    /\ UNCHANGED <<cfg, terminate, loaded, latents, optimizer, prompt, encoded_texts,
                   current_best_score, epoch, i, mb, hist, cut>>

\* An iteration count that starts again in every epoch.
total_iterations_in_epoch(ep, it) == it

\* total_iterations = epoch * self.iterations + i
total_iterations(ep, it) == ep * cfg.iterations + it

\* num = total_iterations // self.save_every
progress_num(ep, it) == total_iterations(ep, it) \div cfg.save_every

\* Lines 553-560: the numbered progress image.
SaveProgress(outcome) ==
    /\ pc = "save_progress"
    /\ IF cfg.save_progress
       THEN LET r == save_image(outcome)
            IN  /\ files' = IF r.written
                            THEN write(files, progress_path(progress_num(epoch, i)), ckpt.image)
                            ELSE files
                /\ stat' = [stat EXCEPT !.tried = @ + 1,
                                        !.failed = @ + (IF r.written THEN 0 ELSE 1)]
                /\ pc' = IF r.raised THEN "raised" ELSE "save_best"
       ELSE /\ outcome = "ok"
            /\ pc' = "save_best"
            /\ UNCHANGED <<files, stat>>
    /\ UNCHANGED <<cfg, terminate, loaded, latents, optimizer, prompt, encoded_texts,
                   current_best_score, epoch, i, mb, ckpt, hist, cut>>

\* Lines 562-568: the best image; then train_step returns.
SaveBest(outcome) ==
    /\ pc = "save_best"
    /\ IF cfg.save_best /\ improves(ckpt.top_score, current_best_score)
       THEN LET r == save_image(outcome)
            IN  /\ current_best_score' = ckpt.top_score
                /\ files' = IF r.written THEN write(files, best_path, ckpt.image) ELSE files
                /\ hist' = [hist EXCEPT !.bestCkpt = ckpt.image]
                /\ stat' = [stat EXCEPT !.tried = @ + 1,
                                        !.best_tried = @ + 1,
                                        !.failed = @ + (IF r.written THEN 0 ELSE 1),
                                        !.finished = @ + (IF r.raised THEN 0 ELSE 1)]
                /\ pc' = IF r.raised THEN "raised" ELSE "iter_poll"
                /\ i' = IF r.raised THEN i ELSE i + 1
       ELSE /\ outcome = "ok"
            /\ pc' = "iter_poll"
            /\ i' = i + 1
            /\ stat' = [stat EXCEPT !.finished = @ + 1]
            /\ UNCHANGED <<current_best_score, files, hist>>
    /\ ckpt' = NoCkpt
    /\ UNCHANGED <<cfg, terminate, loaded, latents, optimizer, prompt, encoded_texts,
                   epoch, mb, cut>>

\* ------------------------------------------------------------ rand_cutout
\* int(x) of a fraction num/den with den > 0: truncation towards zero.
int_trunc(num, den) == IF num >= 0 THEN num \div den ELSE -((-num) \div den)

\* x.clip(lo, hi)
clip(x, lo, hi) == IF x < lo THEN lo ELSE IF x > hi THEN hi ELSE x

\* Line 294: int(width * normal(.8, .3).clip(.5, .95)); z is the normal draw
\* in thousandths.
cutout_size(width, z) == int_trunc(width * clip(z, 500, 950), 1000)

\* An offset range one pixel too wide.
max_offset_plus_one(width, size) == width - size + 1

\* Line 163.
max_offset(width, size) == width - size

\* random.randint(lo, hi), both ends included; the draw u is a fraction
\* u / UniformGrid of the range.
randint(lo, hi, u) == lo + ((hi - lo) * u) \div UniformGrid

\* int(random.gauss(mu = center, sigma = center / center_focus)) with
\* center = max_offset / 2; the draw g is the deviation in halves of sigma.
gauss_offset(maxo, center_focus, g) ==
    int_trunc(maxo * (2 * center_focus + g), 4 * center_focus)

\* rand_cutout: the crop's offsets for the draws gx, gy (normal) and
\* ux, uy (uniform).
rand_cutout(width, size, center_bias, center_focus, gx, gy, ux, uy) ==
    LET min_offset == 0
        maxo == max_offset(width, size)
        bx == gauss_offset(maxo, center_focus, gx)
        by == gauss_offset(maxo, center_focus, gy)
    IN  IF center_bias
        THEN [offset_x |-> IF bx > maxo \/ bx < min_offset
                           THEN randint(min_offset, maxo, ux) ELSE bx,
              offset_y |-> IF by > maxo \/ by < min_offset
                           THEN randint(min_offset, maxo, uy) ELSE by]
        ELSE [offset_x |-> randint(min_offset, maxo, ux),
              offset_y |-> randint(min_offset, maxo, uy)]

NormalDraws == {NormalStep * k : k \in (-NormalSpan)..(3 * NormalSpan)}
GaussDraws == (-GaussSpan)..GaussSpan
UniformDraws == 0..UniformGrid

\* One pass of the loop of BigSleep.forward, lines 292-296: a size, a crop.
Cutout(z, gx, gy, ux, uy) ==
    /\ pc = "cutout"
    /\ LET width == cfg.image_size
           size == cutout_size(width, z)
           at == rand_cutout(width, size, cfg.center_bias, 2, gx, gy, ux, uy)
       IN  cut' = [width |-> width, size |-> size,
                   offset_x |-> at.offset_x, offset_y |-> at.offset_y]
    /\ pc' = "cutout_taken"
    /\ UNCHANGED <<cfg, terminate, loaded, latents, optimizer, prompt, encoded_texts,
                   current_best_score, epoch, i, mb, ckpt, files, stat, hist>>

\* ---------------------------------------------------------- specifications
NoCfg ==
    [image_size |-> 512, max_classes |-> None, epochs |-> 1, iterations |-> 1,
     save_every |-> 1, gradient_accumulate_every |-> 1, save_progress |-> FALSE,
     save_best |-> FALSE, center_bias |-> FALSE, save_date_time |-> FALSE]

\* The process before Imagine is constructed.
Init ==
    /\ cfg = NoCfg
    /\ pc = "new"
    /\ terminate = FALSE
    /\ loaded = [perceptor |-> 0, biggan |-> 0]
    /\ latents = NoLatents
    /\ optimizer = NoOptimizer
    /\ prompt = NoPrompt
    /\ encoded_texts = NoTexts
    /\ current_best_score = 0
    /\ epoch = 0
    /\ i = 0
    /\ mb = 0
    /\ ckpt = NoCkpt
    /\ files = <<>>
    /\ stat = NoStat
    /\ hist = NoHist
    /\ cut = NoCut

\* The configurations of a command-line run (cli.train): a valid image size,
\* one text prompt.  epochs, save_every and gradient_accumulate_every take
\* their smallest and largest value, iterations every value in between, and
\* the runs kept are those of at most MaxImageUpdates image updates.
RunConfigs ==
    {c \in [image_size : {512}, max_classes : {None}, epochs : {1, MaxEpochs},
            iterations : 1..MaxIterations, save_every : {1, MaxSaveEvery},
            gradient_accumulate_every : {1, MaxAccumulate}, save_progress : BOOLEAN,
            save_best : BOOLEAN, center_bias : {FALSE}, save_date_time : {FALSE}] :
        c.epochs * c.iterations <= MaxImageUpdates * c.save_every}

\* cli.train constructs the instance ...
ConstructRun == \E c \in RunConfigs : Construct(c, Some(<<"a">>), None, None, <<>>)

TrainStep ==
    \/ Micro
    \/ Opt
    \/ Ema
    \/ Zero
    \/ \E cos \in CosDraws(Len(encoded_texts.max) + Len(encoded_texts.min)) : CkptEval(cos)
    \/ \E o \in Outcomes : SaveCanon(o)
    \/ \E o \in Outcomes : SaveProgress(o)
    \/ \E o \in Outcomes : SaveBest(o)

\* ... and calls it once, while SIGINT may arrive at any time.
Next ==
    \/ ConstructRun
    \/ Forward
    \/ EpochPoll
    \/ IterPoll
    \/ TrainStep
    \/ Signal

Spec == Init /\ [][Next]_vars

\* A library user's session: construction arguments on both sides of the two
\* asserts, then prompt changes, resets and up to MaxRuns forward calls, on a
\* disk that takes every write.
ImageSizes == {64, 512}
MaxClasses == {None, Some(0), Some(num_classes + 1)}
LifeConfigs ==
    [image_size : ImageSizes, max_classes : MaxClasses, epochs : {1},
     iterations : 1..MaxLifeIterations, save_every : {1},
     gradient_accumulate_every : {1}, save_progress : {FALSE},
     save_best : {TRUE}, center_bias : {FALSE}, save_date_time : {FALSE}]
LifeTexts == {Some(<<"a">>), Some(<<"b">>)}

ConstructLife ==
    \E c \in LifeConfigs : \E text \in LifeTexts : Construct(c, text, None, None, <<>>)

TrainStepLife ==
    \/ Micro
    \/ Opt
    \/ Ema
    \/ Zero
    \/ \E cos \in CosDraws(Len(encoded_texts.max) + Len(encoded_texts.min)) : CkptEval(cos)
    \/ SaveCanon("ok")
    \/ SaveProgress("ok")
    \/ SaveBest("ok")

NextLife ==
    \/ ConstructLife
    \/ \E text \in LifeTexts : SetText(text)
    \/ Reset
    \/ Forward
    \/ ForwardAgain
    \/ EpochPoll
    \/ IterPoll
    \/ TrainStepLife
    \/ Signal

SpecLife == Init /\ [][NextLife]_vars

\* Prompt handling alone: construction with any prompt, then any sequence of
\* set_text and set_clip_encoding calls.
Texts == {None} \cup {Some(t) : t \in Strings(Chars, MaxLen)}
TextMins == Strings(Chars, MaxLen)
Imgs == {None, Some(<<"i", ".", "p">>)}
Encodings == {None, Some("tensor")}

ConstructPrompt ==
    \E text \in Texts, img \in Imgs, encoding \in Encodings, text_min \in TextMins :
        Construct(NoCfg, text, img, encoding, text_min)

NextPrompt ==
    \/ ConstructPrompt
    \/ \E text \in Texts : SetText(text)
    \/ \E text \in Texts, img \in Imgs, encoding \in Encodings, text_min \in TextMins :
           SetClipEncoding(text, img, encoding, text_min)

SpecPrompt == Init /\ [][NextPrompt]_vars

\* The augmentation draws alone: an image size and crop mode, then crops.
InitCutout ==
    /\ cfg \in [image_size : {128, 256, 512}, max_classes : {None}, epochs : {1},
                 iterations : {1}, save_every : {1}, gradient_accumulate_every : {1},
                 save_progress : {FALSE}, save_best : {FALSE}, center_bias : BOOLEAN,
                 save_date_time : {FALSE}]
    /\ pc = "cutout"
    /\ terminate = FALSE
    /\ loaded = [perceptor |-> 1, biggan |-> 1]
    /\ latents = init_latents(NoLatents)
    /\ optimizer = Adam(latents)
    /\ prompt = NoPrompt
    /\ encoded_texts = NoTexts
    /\ current_best_score = 0
    /\ epoch = 0
    /\ i = 0
    /\ mb = 0
    /\ ckpt = NoCkpt
    /\ files = <<>>
    /\ stat = NoStat
    /\ hist = NoHist
    /\ cut = NoCut

NextCutout ==
    /\ pc = "cutout"
    /\ \E z \in NormalDraws, gx \in GaussDraws, gy \in GaussDraws,
          ux \in UniformDraws, uy \in UniformDraws :
           /\ cfg.center_bias \/ (gx = 0 /\ gy = 0)
           /\ Cutout(z, gx, gy, ux, uy)

SpecCutout == InitCutout /\ [][NextCutout]_vars

\* The output name alone: one construction, over prompts with every character
\* create_text_path rewrites and prompts about PathMax characters long.
PathChars == {"a", "-", ",", " ", "|"}
Rep(c, n) == [k \in 1..n |-> c]
LongTexts == {Rep("a", PathMax - 1) \o s : s \in Strings(PathChars, 1)}
PathTexts == {None} \cup {Some(t) : t \in Strings(PathChars, MaxLen) \cup LongTexts}
PathTextMins == Strings(PathChars, MaxLen)
PathConfigs == {[NoCfg EXCEPT !.save_date_time = b] : b \in BOOLEAN}

ConstructPath ==
    \E c \in PathConfigs, text \in PathTexts, img \in Imgs, encoding \in Encodings,
       text_min \in PathTextMins :
        Construct(c, text, img, encoding, text_min)

NextPath == ConstructPath

SpecPath == Init /\ [][NextPath]_vars

\* The same, with the interpreter never stalling inside forward.
SpecFair == Spec /\ WF_vars(EpochPoll \/ IterPoll \/ TrainStep)

\* ------------------------------------------------------------------ claims
Nominal == cfg.epochs * cfg.iterations
WritesPerCheckpoint == IF cfg.save_progress THEN 2 ELSE 1

\* C1. Cancellation: with terminate true no poll of forward lets a train_step
\* start, in the current epoch or a later one; forward does not raise and
\* returns; when the flag came while a train_step was still to be started,
\* fewer than epochs * iterations train_steps have run at the return; and from
\* the first poll that sees the flag no file on disk changes any more.
C1_Cancellation ==
    /\ [][(terminate /\ pc \in PollPCs) => pc' \notin StepPCs]_vars
    /\ [](pc # "raised")
    /\ []((pc = "done" /\ stat.leftAtFlag) => stat.finished < Nominal)
    /\ [][(terminate /\ pc \notin StepPCs) => files' = files]_vars
    /\ ((terminate /\ pc \in RunPCs) ~> (pc = "done"))

C1_Witness ==
    /\ pc = "done"
    /\ terminate
    /\ stat.leftAtFlag
    /\ stat.finished >= 1
    /\ stat.finished < Nominal
    /\ filename \in DOMAIN files

\* C2. Cooperative cancellation: whenever forward is at a poll or has
\* returned, every train_step that was started has run to its end, whether
\* or not the flag was set meanwhile: one optimizer step, one EMA update and
\* one gradient zeroing per started step, every checkpoint that was due, and
\* every write of those checkpoints issued.
C2_Cooperative ==
    (pc \in PollPCs \cup {"done"}) =>
        /\ stat.finished = stat.started
        /\ stat.opt = stat.started
        /\ stat.ema = stat.started
        /\ stat.zero = stat.started
        /\ stat.ckpts = stat.due
        /\ stat.tried = stat.ckpts * WritesPerCheckpoint + stat.best_tried

\* An interrupt arrived inside a train_step whose checkpoint then still ran.
C2_Witness ==
    /\ pc = "done"
    /\ terminate
    /\ stat.ckptAfterFlag >= 1
    /\ stat.opt = stat.started

\* C3. Image save errors are non-fatal: no write failure leaves train_step
\* as an exception; after a checkpoint the writes due after the failed one
\* were issued all the same; and a run that is not interrupted performs all
\* epochs * iterations train_steps and all checkpoints due.
C3_SaveErrorsNonFatal ==
    /\ pc # "raised"
    /\ (pc = "save_best" /\ cfg.save_progress) =>
           stat.tried = stat.ckpts * WritesPerCheckpoint + stat.best_tried
    /\ (pc = "done" /\ ~terminate) =>
           /\ stat.finished = Nominal
           /\ stat.ckpts = stat.due
           /\ stat.tried = stat.ckpts * WritesPerCheckpoint + stat.best_tried

\* A write failed before the last iteration and the run went on to its end.
C3_Witness ==
    /\ pc = "done"
    /\ ~terminate
    /\ stat.failed >= 1
    /\ stat.finished = Nominal
    /\ stat.ckpts >= 2
    /\ stat.tried > stat.ckpts

\* C4. Best-score tracking: with save_best on, the step that ends a
\* checkpoint sets current_best_score to the checkpoint's top score and
\* issues the write of the best file exactly when that score is strictly
\* lower than current_best_score; otherwise it changes neither the score nor
\* any file.  During a run current_best_score never increases.
C4_BestScore ==
    /\ [][(pc = "save_best" /\ pc' # "save_best" /\ cfg.save_best) =>
            IF ckpt.top_score < current_best_score
            THEN /\ current_best_score' = ckpt.top_score
                 /\ stat'.best_tried = stat.best_tried + 1
                 /\ files' \in {files, write(files, best_path, ckpt.image)}
            ELSE /\ current_best_score' = current_best_score
                 /\ stat'.best_tried = stat.best_tried
                 /\ files' = files]_vars
    /\ [][(pc \in RunPCs) => current_best_score' <= current_best_score]_vars

\* One checkpoint improved the score and another one did not.
C4_Witness ==
    /\ pc = "done"
    /\ cfg.save_best
    /\ stat.ckpts >= 2
    /\ stat.best_tried = 1
    /\ current_best_score < 0
    /\ best_path \in DOMAIN files

\* C5. Checkpoint selection: the index train_step selects is the arg-min of
\* the per-view similarity losses of the num_cutouts views.
C5_ArgMinOverViews ==
    (pc = "save_canon") => ckpt.best = topk_smallest(ckpt.views).best

\* C6. Fatal configuration errors fail before any model loading: when the
\* construction has raised for its image size or its max_classes, neither
\* the embedding model nor the generator has been loaded.
C6_FailBeforeLoading ==
    (pc = "failed") => (loaded.perceptor = 0 /\ loaded.biggan = 0)

\* One embedding per "|"-separated segment of t, in order.
Phrases(t, img, encoding) ==
    LET parts == split(t, "|")
    IN  [k \in 1..Len(parts) |-> create_clip_encoding(Some(parts[k]), img, encoding)]

\* C7. Multi-phrase prompts: after set_clip_encoding(text, text_min) the
\* "max" list holds exactly one embedding per segment of the user's text,
\* and the "min" list one per segment of text_min.
C7_PhrasesPerSegment ==
    (pc = "idle" /\ exists(hist.call.text)) =>
        /\ encoded_texts.max =
              Phrases(hist.call.text[1], hist.call.img, hist.call.encoding)
        /\ (hist.call.text_min # <<>>) =>
              encoded_texts.min =
                 Phrases(hist.call.text_min, hist.call.img, hist.call.encoding)

\* C8. The prompt set is replaced wholesale: after a call of set_text or
\* set_clip_encoding both lists are those of that call's arguments; without
\* a text_min the "min" list is empty.
C8_ReplacedWholesale ==
    (pc = "idle") =>
        /\ encoded_texts.max =
              encode_multiple_phrases(text_with_min(hist.call.text, hist.call.text_min),
                                      hist.call.img, hist.call.encoding)
        /\ encoded_texts.min =
              IF hist.call.text_min = <<>> THEN <<>>
              ELSE encode_multiple_phrases(Some(hist.call.text_min),
                                           hist.call.img, hist.call.encoding)

\* C9. A forward call that follows a prompt change starts from fresh
\* latents and a fresh optimizer (no optimizer step applied yet), with the
\* models loaded once.
C9_FreshOnNewPrompt ==
    (pc \in RunPCs /\ stat.newPrompt) =>
        /\ stat.stepsAtStart = 0
        /\ loaded = [perceptor |-> 1, biggan |-> 1]

\* C10. Augmentation bounds: the crop side is an integer within
\* [0.5 * imageSize, 0.95 * imageSize], and on both axes the offset is at
\* least 0 and offset + size at most imageSize.
C10_CutoutInBounds ==
    (pc = "cutout_taken") =>
        /\ 1000 * cut.size >= 500 * cut.width
        /\ 1000 * cut.size <= 950 * cut.width
        /\ 0 <= cut.offset_x
        /\ cut.offset_x + cut.size <= cut.width
        /\ 0 <= cut.offset_y
        /\ cut.offset_y + cut.size <= cut.width

\* A center-biased crop of the largest size that touches the image's border
\* on one axis and starts at 0 on the other.
C10_Witness ==
    /\ pc = "cutout_taken"
    /\ cfg.center_bias
    /\ cut.size = (95 * cut.width) \div 100
    /\ cut.offset_x + cut.size = cut.width
    /\ cut.offset_y = 0

\* C11. Output path sanitization: after set_clip_encoding with a prompt text
\* (no encoding, no timestamp prefix) the text path has no pipe, space or
\* comma, neither begins nor ends with a hyphen or an underscore, is at most
\* PathMax characters long, and contains the sanitized prompt and the
\* sanitized min-text.
IsInfix(t, s) ==
    \E k \in 0..(Len(s) - Len(t)) : SubSeq(s, k + 1, k + Len(t)) = t

Sanitized(s) ==
    strip(replace(replace(replace(replace(s, "-", <<"_">>), ",", <<>>), " ", <<"_">>),
                  "|", <<"-", "-">>), {"-", "_"})

C11_PathSanitized ==
    (/\ pc = "idle"
     /\ exists(hist.call.text)
     /\ ~exists(hist.call.encoding)
     /\ ~cfg.save_date_time) =>
        LET p == prompt.text_path
        IN  /\ \A k \in 1..Len(p) : p[k] \notin {"|", " ", ","}
            /\ p = <<>> \/ (p[1] \notin {"-", "_"} /\ p[Len(p)] \notin {"-", "_"})
            /\ Len(p) <= PathMax
            /\ IsInfix(Sanitized(hist.call.text[1]), p)
            /\ IsInfix(Sanitized(prefix(hist.call.text_min, TextMinMax)), p)

\* C12. Per-iteration ordering: the optimizer steps once, with exactly
\* gradient_accumulate_every backward passes accumulated; the EMA update
\* follows that optimizer step, once; the gradients are zeroed after both; the
\* checkpoint of the iteration is evaluated after the zeroing and changes
\* neither optimizer nor latents; the warm-up of forward changes neither;
\* and at every poll and at the return the optimizer steps and the EMA
\* updates both equal the number of completed iterations.
C12_StepOrdering ==
    /\ [][optimizer.steps' # optimizer.steps =>
              /\ optimizer.steps' = optimizer.steps + 1
              /\ latents.grads = cfg.gradient_accumulate_every
              /\ latents.ema = optimizer.steps]_vars
    /\ [][latents.ema' # latents.ema =>
              /\ latents.ema' = latents.ema + 1
              /\ optimizer.steps = latents.ema + 1
              /\ latents.grads = cfg.gradient_accumulate_every]_vars
    /\ [][(latents.grads # 0 /\ latents.grads' = 0) =>
              /\ optimizer.steps = stat.started
              /\ latents.ema = stat.started]_vars
    /\ [][stat.ckpts' # stat.ckpts =>
              /\ latents.grads = 0
              /\ optimizer.steps = stat.started
              /\ latents.ema = stat.started
              /\ UNCHANGED <<optimizer, latents>>]_vars
    /\ [][stat.warmups' # stat.warmups => UNCHANGED <<optimizer, latents>>]_vars
    /\ []((pc \in PollPCs \cup {"done"}) =>
              /\ optimizer.steps = stat.finished
              /\ latents.ema = stat.finished
              /\ latents.grads = 0)

C12_Witness ==
    /\ pc = "done"
    /\ cfg.gradient_accumulate_every = MaxAccumulate
    /\ stat.warmups = 1
    /\ stat.ckpts >= 1
    /\ stat.finished >= 2
    /\ optimizer.steps = stat.finished
    /\ latents.ema = stat.finished

\* C13. Checkpoint cadence: in a run that is not interrupted, at every poll
\* and at the return the number of checkpoints performed is the number of
\* completed iterations of the whole run divided by save_every (rounded
\* down), so that at the return it is epochs * iterations / save_every.
C13_CheckpointCadence ==
    (~terminate /\ pc \in PollPCs \cup {"done"}) =>
        stat.ckpts = stat.finished \div cfg.save_every

\* C14. Progress numbering: a progress write never names a file that a
\* checkpoint of the run has already written, its number is above the number
\* of every progress file on disk, and the progress files on disk hold the
\* images of their checkpoints in the order of their numbers.
ProgressFiles == {f \in DOMAIN files : f[2] = "progress"}

C14_ProgressNumbering ==
    /\ [][(pc = "save_progress" /\ cfg.save_progress) =>
              \A f \in ProgressFiles : f[3] < progress_num(epoch, i)]_vars
    /\ [](\A f, g \in ProgressFiles : f[3] < g[3] => files[f] < files[g])
    /\ [](Cardinality(ProgressFiles) + stat.failed >= 
              (IF cfg.save_progress /\ pc \in PollPCs \cup {"done"} THEN stat.ckpts ELSE 0))

C14_Witness ==
    /\ pc = "done"
    /\ cfg.save_progress
    /\ cfg.iterations % cfg.save_every # 0
    /\ cfg.epochs = 2
    /\ stat.ckpts = 2
    /\ progress_path(0) \in DOMAIN files
    /\ progress_path(2) \in DOMAIN files
    /\ files[progress_path(0)] < files[progress_path(2)]

\* C15. The interrupt flag is sticky: terminate never goes back to false; the
\* step that sets it changes nothing else of the program; a forward call
\* entered with the flag set does its warm-up pass; and while the flag is set
\* and no iteration of the call has started, none starts: the call only
\* polls and returns, with no checkpoint, no write and no change to latents
\* or optimizer.
C15_StickyFlag ==
    /\ [][terminate => terminate']_vars
    /\ [][terminate' # terminate =>
              UNCHANGED <<cfg, pc, loaded, latents, optimizer, prompt, encoded_texts,
                          current_best_score, epoch, i, mb, ckpt, files, hist, cut>>]_vars
    /\ [][(terminate /\ AtRest /\ pc' \notin {"idle", "done"}) =>
              /\ pc' = "epoch_poll"
              /\ stat'.warmups = 1
              /\ stat'.started = 0
              /\ stat'.ckpts = 0]_vars
    /\ [][(terminate /\ pc \in RunPCs /\ stat.started = 0) =>
              /\ pc' \in PollPCs \cup {"done"}
              /\ stat'.started = 0
              /\ stat'.ckpts = 0
              /\ files' = files
              /\ UNCHANGED <<latents, optimizer>>]_vars

C15_Witness ==
    /\ pc = "done"
    /\ terminate
    /\ hist.runs = 2
    /\ stat.warmups = 1
    /\ stat.started = 0
    /\ stat.ckpts = 0
    /\ stat.stepsAtStart > 0
    /\ latents.steps = stat.stepsAtStart

\* C16. Best file / best score consistency: with save_best, whenever
\* current_best_score is below 0 the best file exists and holds the image of
\* the checkpoint whose top score current_best_score is.
C16_BestFileConsistent ==
    (cfg.save_best /\ current_best_score < 0) =>
        /\ best_path \in DOMAIN files
        /\ files[best_path] = hist.bestCkpt

====
